---- MODULE Spec2Model ----
(***************************************************************************)
(* problemo: causation chains (Problem / Cause / attachments) and the      *)
(* problem receivers (Problems accumulator, FailFast).                     *)
(*                                                                         *)
(* Option<T> is modelled as a sequence: <<>> is None, <<x>> is Some(x).    *)
(* Result<T, E> is a record [ok |-> BOOLEAN, val |-> ..] holding the Ok    *)
(* value or the Err value.  A String is a sequence of text pieces.         *)
(***************************************************************************)
EXTENDS Integers, Sequences, FiniteSets, TLC

VARIABLES
    problem,                \* builder: the Problem being built (problem.rs:17-20)
    hist,                   \* builder: log of the builder calls made on `problem`
    problems,               \* Problems.problems (problems.rs:13)
    critical_error_types,   \* Problems.critical_error_types (problems.rs:16)
    alive,                  \* the accumulator has not been consumed by check()
    accepted,               \* log of the Problems the accumulator took in
    last,                   \* the most recent receiver call: its argument and return value
    a_cause,                \* a Cause a caller holds on its own (cause/cause.rs:12-19)
    attached,               \* log of the attach calls made on `a_cause`
    gave,                   \* the receiver.give calls the latest give_ok-like call made
    receiver_kind,          \* read_files: the ProblemReceiverT it was called with
    reading,                \* read_files: not called, in its loop, or returned
    read,                   \* read_files: log of the items the loop has processed
    strings,                \* read_files: its local `strings` (errors.rs:73)
    returned                \* read_files: the Result it returned, once it has

vars == <<problem, hist, problems, critical_error_types, alive, accepted, last,
          a_cause, attached, gave, receiver_kind, reading, read, strings, returned>>

---------------------------------------------------------------------------
(* Bounds *)

\* Builder calls made on one Problem after it was created.
MaxOps == 3

\* Problems the accumulator may hold.
MaxProblems == 2

\* Attach calls made on one Cause.
MaxAttach == 3

\* Paths handed to one read_files call.
MaxPaths == 3

---------------------------------------------------------------------------
(* Values handed to the library: errors and attachments *)

None == <<>>

Some(x) == <<x>>

\* tag_error!(LowLevelError, "low-level")
LowLevelError == [type |-> "LowLevelError", msg |-> None, source |-> None]

\* message_error!(MessageError), message_error!(NotFoundError, "not found")
MessageError(m) == [type |-> "MessageError", msg |-> m, source |-> None]

NotFoundError(m) == [type |-> "NotFoundError", msg |-> m, source |-> None]

\* A caller's error type whose Error::source() is Some(inner).
WrapError(inner) == [type |-> "WrapError", msg |-> None, source |-> Some(inner)]

\* The concrete error types a caller can name in handle_type_as_critical::<ErrorT>().
ErrorTypes == {"LowLevelError", "MessageError", "NotFoundError", "WrapError"}

Errors ==
    { LowLevelError,
      MessageError(Some("disk full")),
      NotFoundError(Some("file.txt")),
      WrapError(LowLevelError),
      WrapError(WrapError(MessageError(None))) }

StringAttachment(s) == [type |-> "String", val |-> s]

AttachmentValues ==
    { StringAttachment("att1"), StringAttachment("att2"), [type |-> "i32", val |-> "7"] }

\* Backtrace::new()
Backtrace_new == [type |-> "Backtrace", val |-> "frames"]

---------------------------------------------------------------------------
(* Type-erased capture: Box<dyn Error>, Box<dyn Any> *)

\* Box::new(error) / error.into(): the box owns the value; its dynamic type stays
\* that of the value.
CapturedError(error) == [box |-> error]

CapturedAttachment(attachment) == [box |-> attachment]

\* <dyn Error>::downcast_ref::<ErrorT>() on an error value.
downcast_ref(error, ErrorT) == IF error.type = ErrorT THEN Some(error) ELSE None

\* error.type_id() where error: &CapturedError = &Box<dyn Error + Send + Sync> and
\* std::any::Any is in scope (problems.rs:3).  Method lookup stops at the first
\* receiver type that has a type_id: &Box<..> with Self = Box<dyn Error + ..>, which
\* is 'static and so implements Any.  The call is <Box<dyn Error> as Any>::type_id
\* and yields the TypeId of the box type, whatever error the box holds.
type_id(error) == "Box<dyn Error + Send + Sync>"

\* TypeId::of::<ErrorT>() for a concrete error type.
TypeId_of(ErrorT) == ErrorT

---------------------------------------------------------------------------
(* Display of errors (error/tag.rs, error/message.rs) *)

display_prefix(type) == IF type = "NotFoundError" THEN "not found" ELSE ""

\* fmt::Display of the generated error types; a caller's WrapError prints a fixed text.
Display_Error(error) ==
    CASE error.type = "LowLevelError" -> <<"low-level">>
      [] error.type = "WrapError" -> <<"wrap">>
      [] OTHER ->
            IF error.msg # None /\ error.msg[1] # ""
            THEN IF display_prefix(error.type) = ""
                 THEN <<error.msg[1]>>
                 ELSE <<display_prefix(error.type), ": ", error.msg[1]>>
            ELSE IF display_prefix(error.type) = ""
                 THEN <<error.type>>
                 ELSE <<display_prefix(error.type)>>

\* [String]::join(separator): the first item, then separator and item for each further one.
RECURSIVE join(_, _)
join(items, separator) ==
    IF items = <<>> THEN <<>>
    ELSE IF Len(items) = 1 THEN items[1]
    ELSE join(SubSeq(items, 1, Len(items) - 1), separator)
            \o <<separator>> \o items[Len(items)]

---------------------------------------------------------------------------
(* Cause *)

\* Cause::new(error)
Cause_new(error) == [error |-> error, attachments |-> <<>>]

\* impl From<ErrorT> for Cause
Cause_from(error) == Cause_new(CapturedError(error))

---------------------------------------------------------------------------
(* Problem *)

\* #[derive(Default)]: an empty causation chain.
Problem_default == [causes |-> <<>>]

\* Problem::top: causes.front()
top(p) == IF p.causes = <<>> THEN None ELSE Some(p.causes[1])

\* Problem::root: causes.back()
root(p) == IF p.causes = <<>> THEN None ELSE Some(p.causes[Len(p.causes)])

\* Problem::errors
errors(p) == [i \in 1..Len(p.causes) |-> p.causes[i].error]

\* via pushing onto the back.
via_push_back(p, error) == [causes |-> Append(p.causes, Cause_from(error))]

\* via capturing a backtrace for the new Cause.
via_capturing(p, error) ==
    [causes |-> <<[Cause_from(error) EXCEPT
                    !.attachments = <<CapturedAttachment(Backtrace_new)>>]>> \o p.causes]

\* Problem::via: causes.push_front(error.into())
via(p, error) == [causes |-> <<Cause_from(error)>> \o p.causes]

\* behind returning the given problem as it came.
behind_theirs(self, p) == p

\* behind keeping our causes alone.
behind_ours(self, p) == [p EXCEPT !.causes = self.causes]

\* Problem::behind: self.causes.append(&mut problem.causes) moves the given problem's
\* causes onto the back of ours; the given problem then takes the joined deque.
behind(self, p) ==
    LET self_causes == self.causes \o p.causes
    IN [p EXCEPT !.causes = self_causes]

\* with attaching to every Cause of the chain.
with_all(p, attachment) ==
    [causes |-> [i \in 1..Len(p.causes) |->
        [p.causes[i] EXCEPT !.attachments = Append(@, CapturedAttachment(attachment))]]]

\* with attaching to the root Cause.
with_root(p, attachment) ==
    IF root(p) # None
    THEN [causes |-> [p.causes EXCEPT
                        ![Len(p.causes)].attachments = Append(@, CapturedAttachment(attachment))]]
    ELSE p

\* Problem::with: push onto the attachments of top_mut(), if there is a top.
with(p, attachment) ==
    IF top(p) # None
    THEN [causes |-> [p.causes EXCEPT
                        ![1].attachments = Append(@, CapturedAttachment(attachment))]]
    ELSE p

\* maybe_with attaching the Option itself.
maybe_with_option(p, attachment) == with(p, attachment)

\* Problem::maybe_with
maybe_with(p, attachment) ==
    IF attachment # None THEN with(p, attachment[1]) ELSE p

\* Problem::with_backtrace
with_backtrace(p) == with(p, Backtrace_new)

\* From that starts from the default Problem and never inserts the Cause.
Problem_from_default(error) == with_backtrace(Problem_default)

\* impl From<ErrorT> for Problem
Problem_from(error) == with_backtrace([causes |-> <<Cause_from(error)>>])

\* Display writing the separator after every error.
Display_Problem_trailing(p) ==
    LET RECURSIVE each(_)
        each(i) == IF i > Len(p.causes) THEN <<>>
                   ELSE Display_Error(p.causes[i].error.box) \o <<": ">> \o each(i + 1)
    IN each(1)

\* impl fmt::Display for Problem
Display_Problem(p) ==
    join([i \in 1..Len(p.causes) |-> Display_Error(p.causes[i].error.box)], ": ")

---------------------------------------------------------------------------
(* Cause and its attachments (cause/cause.rs, attachment/attachments.rs) *)

\* attach that keeps one attachment per type.
Cause_attach_once(self, attachment) ==
    IF \E i \in 1..Len(self.attachments) : self.attachments[i].box.type = attachment.type
    THEN self
    ELSE [self EXCEPT !.attachments = Append(@, CapturedAttachment(attachment))]

\* Cause::attach: self.attachments.push(Box::new(attachment))
Cause_attach(self, attachment) ==
    [self EXCEPT !.attachments = Append(@, CapturedAttachment(attachment))]

\* Cause::maybe_attach
Cause_maybe_attach(self, attachment) ==
    IF attachment # None THEN Cause_attach(self, attachment[1]) ELSE self

\* impl Attachments for Cause: attachments()
Cause_attachments(self) == self.attachments

\* <dyn Any>::downcast_ref::<AttachmentT>() through the box of a captured attachment.
Any_downcast_ref(attachment, AttachmentT) ==
    IF attachment.box.type = AttachmentT THEN Some(attachment.box) ELSE None

\* Attachments::attachments_of_type: attachments().filter_map(downcast_ref)
attachments_of_type(self, AttachmentT) ==
    LET all == Cause_attachments(self)
        RECURSIVE from(_)
        from(i) == IF i > Len(all) THEN <<>>
                   ELSE Any_downcast_ref(all[i], AttachmentT) \o from(i + 1)
    IN from(1)

---------------------------------------------------------------------------
(* Causation chain traversal (cause/chain.rs, cause/ref.rs, Problem::get / has) *)

\* PartialEq of two errors of one concrete type: tag errors are all equal
\* (error/tag.rs:26-30), message errors compare their message
\* (error/message.rs:54-58), a caller's WrapError derives it.
PartialEq_eq(a, b) ==
    CASE a.type = "LowLevelError" -> TRUE
      [] a.type \in {"MessageError", "NotFoundError"} -> a.msg = b.msg
      [] OTHER -> a = b

\* downcast_error_or_source looking at the error alone.
downcast_error_only(error, ErrorT) == downcast_ref(error, ErrorT)

\* downcast_error_or_source trying the source chain before the error itself.
RECURSIVE downcast_source_or_error(_, _)
downcast_source_or_error(error, ErrorT) ==
    LET inner == IF error.source # None
                 THEN downcast_source_or_error(error.source[1], ErrorT)
                 ELSE None
    IN IF inner # None THEN inner ELSE downcast_ref(error, ErrorT)

\* downcast_error_or_source: the error itself, or else the first match along source().
RECURSIVE downcast_error_or_source(_, _)
downcast_error_or_source(error, ErrorT) ==
    IF downcast_ref(error, ErrorT) # None
    THEN downcast_ref(error, ErrorT)
    ELSE IF error.source # None
         THEN downcast_error_or_source(error.source[1], ErrorT)
         ELSE None

\* CauseRef::new; depth counts from 0 at the top.
CauseRef_new(p, depth, error, attachments) ==
    [problem |-> p, depth |-> depth, error |-> error, attachments |-> attachments]

\* The Option the closure of a typed query computes for the Cause at position i.
found_of_type(p, i, ErrorT) == downcast_error_or_source(p.causes[i].error.box, ErrorT)

\* The same for a query by value: the Option filtered by equality with the error.
found_for(p, i, error) ==
    LET cause_error == found_of_type(p, i, error.type)
    IN IF cause_error # None /\ PartialEq_eq(error, cause_error[1])
       THEN cause_error ELSE None

\* enumerate counting the Causes from 1.
enumerate_from_one_filter_map(p, found) ==
    LET RECURSIVE from(_)
        from(i) ==
            IF i > Len(p.causes) THEN <<>>
            ELSE IF found[i] # None
                 THEN <<CauseRef_new(p, i, found[i][1],
                                     p.causes[i].attachments)>> \o from(i + 1)
                 ELSE from(i + 1)
    IN from(1)

\* iterator.enumerate().filter_map(..) over the causes: found[i] is the Option the
\* closure computes for the Cause at position i, and every Some becomes a CauseRef
\* at that depth.
enumerate_filter_map(p, found) ==
    LET RECURSIVE from(_)
        from(i) ==
            IF i > Len(p.causes) THEN <<>>
            ELSE IF found[i] # None
                 THEN <<CauseRef_new(p, i - 1, found[i][1],
                                     p.causes[i].attachments)>> \o from(i + 1)
                 ELSE from(i + 1)
    IN from(1)

\* Iterator::next on a finished sequence of items: the first one, if any.
first(items) == IF items = <<>> THEN None ELSE Some(items[1])

\* Cause::to_ref
Cause_to_ref(cause, p, depth) == CauseRef_new(p, depth, cause.error, cause.attachments)

\* VecDeque::get(index), index counted from 0
VecDeque_get(items, index) == IF index < Len(items) THEN Some(items[index + 1]) ELSE None

\* CauseRefIterator::new
CauseRefIterator_new(p, depth) == [problem |-> p, depth |-> depth]

\* impl Iterator for CauseRefIterator: next() hands out the Cause at the current depth,
\* if there is one, and moves the iterator on by one.
CauseRefIterator_next(self) ==
    [self |-> [self EXCEPT !.depth = @ + 1],
     item |-> IF VecDeque_get(self.problem.causes, self.depth) # None
              THEN Some(Cause_to_ref(VecDeque_get(self.problem.causes, self.depth)[1],
                                     self.problem, self.depth))
              ELSE None]

\* Everything an iterator hands out until its first None.
RECURSIVE Iterator_collect(_)
Iterator_collect(self) ==
    IF CauseRefIterator_next(self).item = None THEN <<>>
    ELSE <<CauseRefIterator_next(self).item[1]>>
            \o Iterator_collect(CauseRefIterator_next(self).self)

\* iter_under starting at the CauseRef's own depth.
iter_under_same(self) == CauseRefIterator_new(self.problem, self.depth)

\* CauseRef::iter_under
iter_under(self) == CauseRefIterator_new(self.problem, self.depth + 1)

\* CauseRef::under
under(self) == CauseRefIterator_next(iter_under(self)).item

\* CauseRef::next of cause.rs
CauseRef_next(self) ==
    LET depth == self.depth + 1
        cause == VecDeque_get(self.problem.causes, depth)
    IN IF cause # None
       THEN Some([problem |-> self.problem, depth |-> depth, error |-> cause[1].error,
                  attachments |-> cause[1].attachments])
       ELSE None

\* CauseRef::is_top
is_top(self) == self.depth = 0

\* CauseRef::is_root: depth == causes.len() - 1 in usize.  With an empty chain the
\* subtraction overflows: a build with overflow checks panics, a build without wraps
\* to usize::MAX, which no depth the model holds equals.  Every outcome the builds can
\* give is in the set.
is_root(self) ==
    IF Len(self.problem.causes) = 0
    THEN {[panic |-> TRUE, val |-> FALSE], [panic |-> FALSE, val |-> FALSE]}
    ELSE {[panic |-> FALSE, val |-> self.depth = Len(self.problem.causes) - 1]}

\* CausationChain::has_type
Chain_has_type(p, ErrorT) ==
    \E i \in 1..Len(p.causes) : found_of_type(p, i, ErrorT) # None

\* causes_of_type numbering the depths from 1.
causes_of_type_from_one(p, ErrorT) ==
    LET all == enumerate_filter_map(p,
                    [i \in 1..Len(p.causes) |-> found_of_type(p, i, ErrorT)])
    IN [i \in 1..Len(all) |-> [all[i] EXCEPT !.depth = @ + 1]]

\* CausationChain::causes_of_type
causes_of_type(p, ErrorT) ==
    enumerate_filter_map(p, [i \in 1..Len(p.causes) |-> found_of_type(p, i, ErrorT)])

\* CausationChain::cause_of_type
cause_of_type(p, ErrorT) == first(causes_of_type(p, ErrorT))

\* has asking the top Cause alone.
Chain_has_top(p, error) == p.causes # <<>> /\ found_for(p, 1, error) # None

\* CausationChain::has
Chain_has(p, error) ==
    \E i \in 1..Len(p.causes) :
        found_for(p, i, error) # None

\* CausationChain::causes_for
causes_for(p, error) ==
    enumerate_filter_map(p, [i \in 1..Len(p.causes) |-> found_for(p, i, error)])

\* CausationChain::cause_for
cause_for(p, error) == first(causes_for(p, error))

\* Problem::get: the first Cause, top to root, whose error or source downcasts.
Problem_get(p, ErrorT) ==
    first(enumerate_filter_map(p,
        [i \in 1..Len(p.causes) |-> found_of_type(p, i, ErrorT)]))

\* Problem::has: get().map(|cause| error == *cause.error).unwrap_or(false)
Problem_has(p, error) ==
    IF Problem_get(p, error.type) # None
    THEN PartialEq_eq(error, Problem_get(p, error.type)[1].error)
    ELSE FALSE

\* Problem::has_type
Problem_has_type(p, ErrorT) ==
    \E i \in 1..Len(p.causes) : found_of_type(p, i, ErrorT) # None

\* Attachments::attachment_of_type: attachments_of_type().next()
attachment_of_type(self, AttachmentT) == first(attachments_of_type(self, AttachmentT))

\* Problem::attachments looking at the top Cause alone.
Problem_attachments_top(p) == IF p.causes = <<>> THEN <<>> ELSE p.causes[1].attachments

\* Problem::attachments: causes.iter().flat_map(|cause| cause.attachments.iter())
Problem_attachments(p) ==
    LET RECURSIVE from(_)
        from(i) == IF i > Len(p.causes) THEN <<>>
                   ELSE p.causes[i].attachments \o from(i + 1)
    IN from(1)

\* Problem::attachments_of: attachments().filter_map(downcast_ref)
Problem_attachments_of(p, AttachmentT) ==
    LET all == Problem_attachments(p)
        RECURSIVE from(_)
        from(i) == IF i > Len(all) THEN <<>>
                   ELSE Any_downcast_ref(all[i], AttachmentT) \o from(i + 1)
    IN from(1)

\* Problem::attachment_of: attachments_of().next()
Problem_attachment_of(p, AttachmentT) == first(Problem_attachments_of(p, AttachmentT))

---------------------------------------------------------------------------
(* Problems (accumulator) and FailFast *)

\* Problems::handle_type_as_critical::<ErrorT>()
handle_type_as_critical(types, ErrorT) == types \cup {TypeId_of(ErrorT)}

\* Problems::is_error_critical
is_error_critical(types, error) == type_id(error) \in types

\* is_critical searching the whole chain and every source link, as has_type does.
is_critical_any_cause(types, p) ==
    \E i \in 1..Len(p.causes) :
        LET RECURSIVE reach(_)
            reach(e) == e.type \in types \/ (e.source # None /\ reach(e.source[1]))
        IN reach(p.causes[i].error.box)

\* is_critical taking a Problem without a top for critical.
is_critical_or_true(types, p) ==
    IF top(p) # None THEN is_error_critical(types, top(p)[1].error) ELSE TRUE

\* Problems::is_critical: top().map(is_error_critical).unwrap_or(false)
is_critical(types, p) ==
    IF top(p) # None THEN is_error_critical(types, top(p)[1].error) ELSE FALSE

\* add putting the Problem in front of the stored ones.
add_front(self, p) == [self EXCEPT !.problems = <<p>> \o @]

\* add storing the Problem without its attachments.
add_bare(self, p) ==
    [self EXCEPT !.problems =
        Append(@, [causes |-> [i \in 1..Len(p.causes) |-> Cause_new(p.causes[i].error)]])]

\* Problems::add: problems.push(problem.into())
add(self, p) == [self EXCEPT !.problems = Append(@, p)]

\* Problems::is_empty
is_empty(self) == self.problems = <<>>

\* ()
Unit == <<>>

Ok(value) == [ok |-> TRUE, val |-> value]

Err(value) == [ok |-> FALSE, val |-> value]

\* check with the test inverted.
check_inverted(self) == IF is_empty(self) THEN Err(self) ELSE Ok(Unit)

\* Problems::check: Ok(()) if empty, else Err(self)
check(self) == IF is_empty(self) THEN Ok(Unit) ELSE Err(self)

\* impl ProblemReceiver for Problems: the accumulator give leaves, and what it returns
Problems_give(self, p) ==
    IF is_critical(self.critical_error_types, p)
    THEN [self |-> self, ret |-> Err(p)]
    ELSE [self |-> add(self, p), ret |-> Ok(Unit)]

\* A FailFast that swallows.
FailFast_give_swallow(p) == Ok(Unit)

\* impl ProblemReceiver for FailFast
FailFast_give(p) == Err(p)

---------------------------------------------------------------------------
(* Results handed to a receiver (into.rs, result.rs, receiver/result.rs) *)

\* IntoProblemResult::into_problem: a Result<_, Problem> is returned as it is, a
\* Result<_, ErrorT> has its error mapped through Problem::from.
into_problem(result) ==
    IF result.ok \/ "causes" \in DOMAIN result.val
    THEN result
    ELSE Err(Problem_from(result.val))

\* ProblemResult::via on a Result: into_problem().map_err(|problem| problem.via(error))
Result_via(result, error) ==
    LET problem_result == into_problem(result)
    IN IF problem_result.ok THEN problem_result ELSE Err(via(problem_result.val, error))

\* A receiver behind the ProblemReceiver trait: a Problems accumulator or FailFast.
ProblemsReceiver(self) == [kind |-> "Problems", self |-> self]

FailFastReceiver == [kind |-> "FailFast", self |-> Unit]

\* receiver.give(problem), by the implementation of the receiver's type: the receiver
\* it leaves and what it returns.
ProblemReceiver_give(receiver, p) ==
    IF receiver.kind = "Problems"
    THEN [receiver |-> ProblemsReceiver(Problems_give(receiver.self, p).self),
          ret |-> Problems_give(receiver.self, p).ret]
    ELSE [receiver |-> receiver, ret |-> FailFast_give(p)]

\* One receiver.give call as the log keeps it.
Gave(p, ret) == [problem |-> p, ret |-> ret]

\* The three helpers share one shape: Ok(ok) => Ok(found(ok)); Err(problem) =>
\* { receiver.give(problem)?; Ok(fallback) }.  `found` is the Ok value to return when
\* the Result was Ok.  The outcome: the receiver left, the value returned, and the
\* give calls made.
give_then(result, receiver, found, fallback) ==
    LET problem_result == into_problem(result) IN
    IF problem_result.ok
    THEN [receiver |-> receiver, ret |-> Ok(found), gave |-> <<>>]
    ELSE LET given == ProblemReceiver_give(receiver, problem_result.val) IN
         [receiver |-> given.receiver,
          ret |-> IF given.ret.ok THEN Ok(fallback) ELSE Err(given.ret.val),
          gave |-> <<Gave(problem_result.val, given.ret)>>]

\* give_ok that drops the error without telling the receiver.
give_ok_silent(result, receiver) ==
    [receiver |-> receiver,
     ret |-> IF result.ok THEN Ok(Some(result.val)) ELSE Ok(None),
     gave |-> <<>>]

\* ReportReceiverResult::give_ok
give_ok(result, receiver) ==
    give_then(result, receiver,
              IF into_problem(result).ok THEN Some(into_problem(result).val) ELSE None,
              None)

\* ReportReceiverResult::give_unwrap_or
give_unwrap_or(result, receiver, default) ==
    give_then(result, receiver, into_problem(result).val, default)

\* A String value, the OkT of the Results handed over.
String_from(text) == [type |-> "String", val |-> text]

\* String::default()
String_default == String_from("")

\* ReportReceiverResult::give_unwrap_or_default, OkT = String
give_unwrap_or_default(result, receiver) ==
    give_then(result, receiver, into_problem(result).val, String_default)

---------------------------------------------------------------------------
(* Builder: one Problem, created and then extended by fluent calls *)

Call(op, arg) == [op |-> op, arg |-> arg]

InitBuilder ==
    /\ problem = Problem_default
    /\ hist = <<>>

InitReceiver ==
    /\ problems = <<>>
    /\ critical_error_types = {}
    /\ alive = TRUE
    /\ accepted = <<>>
    /\ last = [call |-> "none", arg |-> <<>>, ret |-> <<>>]

receiverVars == <<problems, critical_error_types, alive, accepted, last>>

builderVars == <<problem, hist>>

causeVars == <<a_cause, attached>>

batchVars == <<receiver_kind, reading, read, strings, returned>>

\* Problem::from(error): a new Problem in place of the untouched default one.
From ==
    /\ hist = <<>>
    /\ \E error \in Errors :
        /\ problem' = Problem_from(error)
        /\ hist' = <<Call("from", error)>>
    /\ UNCHANGED <<receiverVars, causeVars, gave, batchVars>>

Via ==
    /\ Len(hist) < MaxOps + 1
    /\ \E error \in Errors :
        /\ problem' = via(problem, error)
        /\ hist' = Append(hist, Call("via", error))
    /\ UNCHANGED <<receiverVars, causeVars, gave, batchVars>>

With ==
    /\ Len(hist) < MaxOps + 1
    /\ \E attachment \in AttachmentValues :
        /\ problem' = with(problem, attachment)
        /\ hist' = Append(hist, Call("with", attachment))
    /\ UNCHANGED <<receiverVars, causeVars, gave, batchVars>>

MaybeWith ==
    /\ Len(hist) < MaxOps + 1
    /\ \E attachment \in {None} \cup {Some(a) : a \in AttachmentValues} :
        /\ problem' = maybe_with(problem, attachment)
        /\ hist' = Append(hist, Call("maybe_with", attachment))
    /\ UNCHANGED <<receiverVars, causeVars, gave, batchVars>>

WithBacktrace ==
    /\ Len(hist) < MaxOps + 1
    /\ problem' = with_backtrace(problem)
    /\ hist' = Append(hist, Call("with_backtrace", <<>>))
    /\ UNCHANGED <<receiverVars, causeVars, gave, batchVars>>

---------------------------------------------------------------------------
(* Receivers: an accumulator and a FailFast, given Problems built as above *)

GivenErrors == {LowLevelError, MessageError(Some("disk full")), WrapError(LowLevelError)}

GivenTypes == {e.type : e \in GivenErrors}

GivenProblems ==
    {Problem_default}
        \cup {Problem_from(e) : e \in GivenErrors}
        \cup { via(Problem_from(MessageError(Some("disk full"))), LowLevelError),
               via(Problem_from(LowLevelError), MessageError(Some("disk full"))),
               with(via(Problem_from(MessageError(Some("disk full"))),
                        WrapError(LowLevelError)), StringAttachment("att1")) }

\* The accumulator as one value.
Self == [problems |-> problems, critical_error_types |-> critical_error_types]

\* The concrete type of the error the top Cause holds is registered in `types`.
TopTypeRegistered(types, p) ==
    /\ top(p) # None
    /\ TypeId_of(top(p)[1].error.box.type) \in types

\* One entry of the log: the Problem taken in, the call that stored it, and whether
\* its top error's type was registered at that moment.
Accept(p, by) ==
    [problem |-> p, by |-> by,
     critical_then |-> TopTypeRegistered(critical_error_types, p)]

HandleTypeAsCritical ==
    /\ alive
    /\ \E ErrorT \in GivenTypes :
        /\ critical_error_types' = handle_type_as_critical(critical_error_types, ErrorT)
        /\ last' = [call |-> "handle_type_as_critical", arg |-> ErrorT, ret |-> Unit]
    /\ UNCHANGED <<problems, alive, accepted>>
    /\ UNCHANGED <<builderVars, causeVars, gave, batchVars>>

Add ==
    /\ alive
    /\ Len(problems) < MaxProblems
    /\ \E p \in GivenProblems :
        /\ problems' = add(Self, p).problems
        /\ critical_error_types' = add(Self, p).critical_error_types
        /\ accepted' = Append(accepted, Accept(p, "add"))
        /\ last' = [call |-> "add", arg |-> p, ret |-> Unit]
    /\ UNCHANGED alive
    /\ UNCHANGED <<builderVars, causeVars, gave, batchVars>>

Give ==
    /\ alive
    /\ Len(problems) < MaxProblems
    /\ \E p \in GivenProblems :
        LET given == Problems_give(Self, p) IN
        /\ problems' = given.self.problems
        /\ critical_error_types' = given.self.critical_error_types
        /\ accepted' = IF given.ret.ok THEN Append(accepted, Accept(p, "give")) ELSE accepted
        /\ last' = [call |-> "give", arg |-> p, ret |-> given.ret]
    /\ UNCHANGED alive
    /\ UNCHANGED <<builderVars, causeVars, gave, batchVars>>

\* check(self) consumes the accumulator: Err(self) hands it back, Ok(()) drops it.
Check ==
    /\ alive
    /\ last' = [call |-> "check", arg |-> Unit, ret |-> check(Self)]
    /\ alive' = ~check(Self).ok
    /\ UNCHANGED <<problems, critical_error_types, accepted>>
    /\ UNCHANGED <<builderVars, causeVars, gave, batchVars>>

FailFastGive ==
    /\ \E p \in GivenProblems :
        last' = [call |-> "FailFast::give", arg |-> p, ret |-> FailFast_give(p)]
    /\ UNCHANGED <<problems, critical_error_types, alive, accepted>>
    /\ UNCHANGED <<builderVars, causeVars, gave, batchVars>>

NextReceiver == HandleTypeAsCritical \/ Add \/ Give \/ Check \/ FailFastGive

\* Cause::new(error) with nothing attached yet.
InitCause ==
    /\ a_cause = Cause_new(CapturedError(LowLevelError))
    /\ attached = <<>>

\* cause.attach(attachment)
Attach ==
    /\ Len(attached) < MaxAttach
    /\ \E attachment \in AttachmentValues :
        /\ a_cause' = Cause_attach(a_cause, attachment)
        /\ attached' = Append(attached, Call("attach", attachment))
    /\ UNCHANGED <<builderVars, receiverVars, gave, batchVars>>

\* cause.maybe_attach(attachment)
MaybeAttach ==
    /\ Len(attached) < MaxAttach
    /\ \E attachment \in {None} \cup {Some(a) : a \in AttachmentValues} :
        /\ a_cause' = Cause_maybe_attach(a_cause, attachment)
        /\ attached' = Append(attached, Call("maybe_attach", attachment))
    /\ UNCHANGED <<builderVars, receiverVars, gave, batchVars>>

NextCause == Attach \/ MaybeAttach

\* The Results a caller hands to the helpers: a value, a plain error, a Problem.
GivenResults ==
    { Ok(String_from("text")),
      Err(LowLevelError),
      Err(WrapError(LowLevelError)),
      Err(via(Problem_from(MessageError(Some("disk full"))), LowLevelError)) }

\* The receivers a caller can pass: its accumulator, or FailFast.
GivenReceivers == {ProblemsReceiver(Self), FailFastReceiver}

\* What a helper call leaves behind: the accumulator if that was the receiver, the
\* log of what it stored, the call and the give calls it made.
Helped(call, result, receiver, default, outcome) ==
    /\ problems' = IF receiver.kind = "Problems"
                   THEN outcome.receiver.self.problems ELSE problems
    /\ critical_error_types' =
            IF receiver.kind = "Problems"
            THEN outcome.receiver.self.critical_error_types ELSE critical_error_types
    /\ accepted' = IF receiver.kind = "Problems" /\ outcome.gave # <<>>
                      /\ outcome.gave[1].ret.ok
                   THEN Append(accepted, Accept(outcome.gave[1].problem, "give"))
                   ELSE accepted
    /\ last' = [call |-> call,
                arg |-> [result |-> result, kind |-> receiver.kind, default |-> default],
                ret |-> outcome.ret]
    /\ gave' = outcome.gave

\* result.give_ok(&mut receiver)
GiveOk ==
    /\ alive
    /\ Len(problems) < MaxProblems
    /\ \E result \in GivenResults, receiver \in GivenReceivers :
        Helped("give_ok", result, receiver, None, give_ok(result, receiver))
    /\ UNCHANGED alive
    /\ UNCHANGED <<builderVars, causeVars, batchVars>>

\* result.give_unwrap_or(&mut receiver, default)
GiveUnwrapOr ==
    /\ alive
    /\ Len(problems) < MaxProblems
    /\ \E result \in GivenResults, receiver \in GivenReceivers, default \in {String_from("other")} :
        Helped("give_unwrap_or", result, receiver, default,
               give_unwrap_or(result, receiver, default))
    /\ UNCHANGED alive
    /\ UNCHANGED <<builderVars, causeVars, batchVars>>

\* result.give_unwrap_or_default(&mut receiver)
GiveUnwrapOrDefault ==
    /\ alive
    /\ Len(problems) < MaxProblems
    /\ \E result \in GivenResults, receiver \in GivenReceivers :
        Helped("give_unwrap_or_default", result, receiver, String_default,
               give_unwrap_or_default(result, receiver))
    /\ UNCHANGED alive
    /\ UNCHANGED <<builderVars, causeVars, batchVars>>

NextGive == HandleTypeAsCritical \/ GiveOk \/ GiveUnwrapOr \/ GiveUnwrapOrDefault

\* No give_ok-like call made yet, read_files not called yet.
InitBatch ==
    /\ gave = <<>>
    /\ receiver_kind = "none"
    /\ reading = "idle"
    /\ read = <<>>
    /\ strings = <<>>
    /\ returned = None

\* std::io::Error, as std::fs::read_to_string returns it.
IoError == [type |-> "io::Error", msg |-> Some("No such file"), source |-> None]

\* What std::fs::read_to_string(path) can return.
ReadResults == {Ok(String_from("text")), Err(IoError)}

\* Before read_files is called the caller registers critical types ...
Register == reading = "idle" /\ HandleTypeAsCritical

\* ... and the accumulator may hold Problems from earlier work.
Stock == reading = "idle" /\ Add

\* read_files(paths, &mut problems) is entered: let mut strings = Vec::default()
ReadFilesCall ==
    /\ reading = "idle"
    /\ alive
    /\ reading' = "loop"
    /\ \E kind \in {"Problems", "FailFast"} : receiver_kind' = kind
    /\ strings' = <<>>
    /\ UNCHANGED <<read, returned, gave>>
    /\ UNCHANGED <<builderVars, receiverVars, causeVars>>

\* The receiver read_files was called with.
TheReceiver == IF receiver_kind = "Problems" THEN ProblemsReceiver(Self) ELSE FailFastReceiver

\* One turn of the loop: read_to_string(path).via(LowLevelError).give_ok(problems)?
\* and the push of the string read; an Err from `?` ends read_files.
ReadFile ==
    /\ reading = "loop"
    /\ Len(read) < MaxPaths
    /\ \E item \in ReadResults :
        LET result == Result_via(item, LowLevelError)
            outcome == give_ok(result, TheReceiver)
        IN /\ Helped("give_ok", result, TheReceiver, None, outcome)
           /\ read' = Append(read, [item |-> item, result |-> result, ret |-> outcome.ret])
           /\ IF outcome.ret.ok
              THEN /\ strings' = IF outcome.ret.val # None
                                 THEN Append(strings, outcome.ret.val[1]) ELSE strings
                   /\ UNCHANGED <<reading, returned>>
              ELSE /\ returned' = Some(Err(outcome.ret.val))
                   /\ reading' = "returned"
                   /\ UNCHANGED strings
    /\ UNCHANGED <<alive, receiver_kind>>
    /\ UNCHANGED <<builderVars, causeVars>>

\* The paths are used up: Ok(strings)
ReadFilesReturn ==
    /\ reading = "loop"
    /\ returned' = Some(Ok(strings))
    /\ reading' = "returned"
    /\ UNCHANGED <<receiver_kind, read, strings, gave>>
    /\ UNCHANGED <<builderVars, receiverVars, causeVars>>

NextBatch == Register \/ Stock \/ ReadFilesCall \/ ReadFile \/ ReadFilesReturn

Init == InitBuilder /\ InitReceiver /\ InitCause /\ InitBatch

SpecBatch == Init /\ [][NextBatch]_vars

SpecCause == Init /\ [][NextCause]_vars

SpecReceiver == Init /\ [][NextReceiver]_vars

SpecGive == Init /\ [][NextGive]_vars

Next == From \/ Via \/ With \/ MaybeWith \/ WithBacktrace

Spec == Init /\ [][Next]_vars

\* The calls that decide what a chain query sees: the Causes and their attachments.
NextChain == From \/ Via \/ With

SpecChain == Init /\ [][NextChain]_vars

\* The Problems handed to behind: an empty one, fresh ones, and a built-up one.
SplicedProblems ==
    { Problem_default,
      Problem_from(LowLevelError),
      Problem_from(WrapError(LowLevelError)),
      with(via(Problem_from(NotFoundError(Some("file.txt"))), LowLevelError),
           StringAttachment("att1")) }

\* problem = problem.behind(p)
Behind ==
    /\ Len(hist) < MaxOps + 1
    /\ \E p \in SplicedProblems :
        /\ problem' = behind(problem, p)
        /\ hist' = Append(hist, Call("behind", p))
    /\ UNCHANGED <<receiverVars, causeVars, gave, batchVars>>

NextSplice == From \/ Via \/ With \/ MaybeWith \/ WithBacktrace \/ Behind

SpecSplice == Init /\ [][NextSplice]_vars

---------------------------------------------------------------------------
(* Claims about the receivers, under SpecReceiver *)

\* The types of the errors reachable from `error` through one or more source links.
RECURSIVE SourceTypes(_)
SourceTypes(error) ==
    IF error.source = None THEN {}
    ELSE {error.source[1].type} \cup SourceTypes(error.source[1])

\* The Problems the accumulator should hold: those it took in, in order.
AcceptedProblems == [i \in 1..Len(accepted) |-> accepted[i].problem]

\* C1: once error type T is registered with handle_type_as_critical, give(p) of a
\* Problem whose top Cause's error has concrete type T returns Err carrying p and
\* leaves the number of stored problems unchanged; give(p) of a Problem whose top
\* error has an unregistered type returns Ok and stores exactly one more problem.
C1_GiveRejectsRegisteredTop ==
    [][last'.call = "give" =>
        LET p == last'.arg IN
        IF TopTypeRegistered(critical_error_types, p)
        THEN /\ ~last'.ret.ok
             /\ last'.ret.val = p
             /\ Len(problems') = Len(problems)
        ELSE top(p) # None =>
                /\ last'.ret.ok
                /\ Len(problems') = Len(problems) + 1]_vars

\* C2: give decides from the top Cause's own error type only: a Problem whose
\* registered type occurs only below the top, or only in the source chain of the
\* top error, is stored and give returns Ok.
C2_Case(p) ==
    /\ top(p) # None
    /\ ~TopTypeRegistered(critical_error_types, p)
    /\ \/ \E i \in 2..Len(p.causes) : p.causes[i].error.box.type \in critical_error_types
       \/ SourceTypes(top(p)[1].error.box) \cap critical_error_types # {}

C2_OnlyTopDecides ==
    (last.call = "give" /\ C2_Case(last.arg)) =>
        /\ last.ret.ok
        /\ problems # <<>>
        /\ problems[Len(problems)] = last.arg

C2_Witness ==
    /\ last.call = "give"
    /\ C2_Case(last.arg)
    /\ \E i \in 2..Len(last.arg.causes) :
            last.arg.causes[i].error.box.type \in critical_error_types
    /\ SourceTypes(top(last.arg)[1].error.box) \cap critical_error_types # {}
    /\ problems # <<>>
    /\ problems[Len(problems)] = last.arg

\* C3: in every reachable state of the accumulator every stored Problem got there
\* through a step that consulted critical_error_types: no Problem that give stored
\* has a top Cause whose error type was registered as critical at the moment it was
\* stored.
C3_NoStoredCriticalTop ==
    \A i \in 1..Len(problems) :
        accepted[i].by = "give" => ~accepted[i].critical_then

\* C4: check() returns Ok(()) exactly when the accumulator holds no Problem; once
\* at least one Problem was stored (by add or a swallowing give) it returns Err
\* carrying the accumulator itself, which still holds every stored Problem.
C4_CheckOkIffEmpty ==
    last.call = "check" =>
        /\ last.ret.ok <=> accepted = <<>>
        /\ ~last.ret.ok =>
            /\ last.ret.val = Self
            /\ last.ret.val.problems = AcceptedProblems

C4_Witness ==
    /\ last.call = "check"
    /\ ~last.ret.ok
    /\ Len(accepted) = 2
    /\ last.ret.val.problems = AcceptedProblems

\* C5: FailFast rejects every give: at every point of any sequence of calls
\* FailFast.give(p) returns Err carrying p itself and nothing is stored.
C5_FailFastRejects ==
    [][last'.call = "FailFast::give" =>
        /\ ~last'.ret.ok
        /\ last'.ret.val = last'.arg
        /\ problems' = problems
        /\ accepted' = accepted]_vars

C5_Witness ==
    /\ last.call = "FailFast::give"
    /\ ~last.ret.ok
    /\ last.ret.val = last.arg
    /\ Len(last.arg.causes) = 2
    /\ last.arg.causes[1].attachments # <<>>
    /\ problems # <<>>

---------------------------------------------------------------------------
(* Claims about the builder, under Spec *)

IsPush(c) == c.op \in {"from", "via"}

\* The calls that pushed a Cause, oldest first.
Pushes == SelectSeq(hist, IsPush)

\* How many Causes had been pushed once call k was made.
PushesBefore(k) == Cardinality({j \in 1..k : IsPush(hist[j])})

\* Call c attaches the value a.
Attaches(c, a) ==
    \/ c.op = "with" /\ c.arg = a
    \/ c.op = "maybe_with" /\ c.arg = Some(a)

\* The Cause at position i (1 is the top) holds the attachment a.
Holds(p, i, a) ==
    \E j \in 1..Len(p.causes[i].attachments) :
        p.causes[i].attachments[j] = CapturedAttachment(a)

\* C6: the Problem produced by Problem::from(E) has exactly one Cause (top = root),
\* and that Cause's error downcasts back to E.
C6_FromHasOneCause ==
    (Len(hist) = 1 /\ hist[1].op = "from") =>
        /\ Len(problem.causes) = 1
        /\ top(problem) = root(problem)
        /\ top(problem) # None
        /\ downcast_ref(problem.causes[1].error.box, hist[1].arg.type) = Some(hist[1].arg)

C6_Witness ==
    /\ Len(hist) = 1
    /\ hist[1].op = "from"
    /\ hist[1].arg.source # None
    /\ Len(problem.causes) = 1

\* C7: via pushes onto the front: errors() lists the chain's errors in reverse order
\* of insertion (last pushed first, original error last), one entry per Cause, and
\* never an error's source.
C7_ErrorsReverseInsertion ==
    LET n == Len(Pushes) IN
    /\ Len(errors(problem)) = n
    /\ Len(problem.causes) = n
    /\ \A i \in 1..n : errors(problem)[i] = CapturedError(Pushes[n + 1 - i].arg)

C7_Witness ==
    /\ Len(Pushes) = 3
    /\ Pushes[1].op = "from"
    /\ Pushes[1].arg # Pushes[2].arg
    /\ Pushes[2].arg # Pushes[3].arg
    /\ Pushes[3].arg.source # None
    /\ errors(problem) =
         <<CapturedError(Pushes[3].arg), CapturedError(Pushes[2].arg),
           CapturedError(Pushes[1].arg)>>

\* Where the Display of the Cause at position i starts in the Display of the Problem.
RECURSIVE DisplayStart(_, _)
DisplayStart(p, i) ==
    IF i = 1 THEN 1
    ELSE DisplayStart(p, i - 1) + Len(Display_Error(p.causes[i - 1].error.box)) + 1

\* C8: Display of a Problem is the Display forms of its Causes' errors, top to root,
\* joined by ": ", with no separator before the first or after the last (one Cause
\* renders as its error alone, an empty chain as the empty string).
C8_DisplayJoined ==
    LET n == Len(problem.causes)
        text == Display_Problem(problem)
        piece(i) == Display_Error(problem.causes[i].error.box)
        start(i) == DisplayStart(problem, i)
    IN  /\ n = 0 => text = <<>>
        /\ n = 1 => text = piece(1)
        /\ n > 0 => Len(text) = start(n) + Len(piece(n)) - 1
        /\ \A i \in 1..n :
            /\ SubSeq(text, start(i), start(i) + Len(piece(i)) - 1) = piece(i)
            /\ i < n => text[start(i) + Len(piece(i))] = ": "

C8_Witness ==
    /\ Len(problem.causes) = 3
    /\ problem.causes[1].error.box.type = "NotFoundError"
    /\ problem.causes[2].error.box.type = "WrapError"
    /\ problem.causes[3].error.box.type = "MessageError"
    /\ Display_Problem(problem) =
         <<"not found", ": ", "file.txt", ": ", "wrap", ": ", "disk full">>

\* C9: with(a) attaches only to the Cause that is the top at the moment of the call:
\* a Cause holds a exactly when a was attached while that Cause was the top, so after
\* from(e1).with(a1).via(e2).with(a2) the Cause of e1 holds a1 and not a2 and the
\* Cause of e2 holds a2 and not a1.
C9_WithAttachesToCurrentTop ==
    LET n == Len(problem.causes) IN
    \A i \in 1..n : \A a \in AttachmentValues :
        Holds(problem, i, a) <=>
            \E k \in 1..Len(hist) : Attaches(hist[k], a) /\ PushesBefore(k) = n + 1 - i

C9_Witness ==
    /\ Len(hist) = 4
    /\ hist[1].op = "from"
    /\ hist[2].op = "with"
    /\ hist[3].op = "via"
    /\ hist[4].op = "with"
    /\ hist[2].arg # hist[4].arg
    /\ Len(problem.causes) = 2
    /\ Holds(problem, 2, hist[2].arg) /\ ~Holds(problem, 2, hist[4].arg)
    /\ Holds(problem, 1, hist[4].arg) /\ ~Holds(problem, 1, hist[2].arg)

\* C10: with and maybe_with on a Problem whose chain is empty leave it unchanged
\* (still no Cause, no attachment stored anywhere); maybe_with(None) leaves any
\* Problem unchanged.
C10_NoTopOrNoneIsNoOp ==
    [][LET c == hist'[Len(hist')] IN
       /\ (c.op \in {"with", "maybe_with"} /\ problem.causes = <<>>) =>
            problem' = Problem_default
       /\ (c.op = "maybe_with" /\ c.arg = None) => problem' = problem]_vars

C10_Witness ==
    /\ Len(hist) = 3
    /\ hist[1].op = "with"
    /\ hist[2].op = "via"
    /\ hist[3].op = "maybe_with"
    /\ hist[3].arg = None
    /\ problem = via(Problem_default, hist[2].arg)

---------------------------------------------------------------------------
(* Claims about the chain queries, under Spec *)

\* How many source links lead down from an error.
RECURSIVE SourceDepth(_)
SourceDepth(error) ==
    IF error.source = None THEN 0 ELSE 1 + SourceDepth(error.source[1])

\* The error k source links below an error (k = 0: the error itself).
RECURSIVE SourceAt(_, _)
SourceAt(error, k) == IF k = 0 THEN error ELSE SourceAt(error.source[1], k - 1)

\* The own error of the Cause at position i.
OwnError(p, i) == p.causes[i].error.box

\* The places <<i, k>> of a chain where an error of the type sits: Cause i, k links down.
PlacesOfType(p, ErrorT) ==
    { place \in (1..Len(p.causes)) \X (0..2) :
        /\ place[2] <= SourceDepth(OwnError(p, place[1]))
        /\ SourceAt(OwnError(p, place[1]), place[2]).type = ErrorT }

\* The positions of the Causes in which the type is found at all.
CausesWithType(p, ErrorT) == {place[1] : place \in PlacesOfType(p, ErrorT)}

\* The match nearest to the own error of Cause i.
NearestOfType(p, i, ErrorT) ==
    LET k == CHOOSE k \in 0..2 :
                /\ <<i, k>> \in PlacesOfType(p, ErrorT)
                /\ \A j \in 0..2 : <<i, j>> \in PlacesOfType(p, ErrorT) => k <= j
    IN SourceAt(OwnError(p, i), k)

\* The entry a query gives for Cause i: its depth, its nearest match, its attachments.
EntryOf(p, i, ErrorT) ==
    [problem |-> p, depth |-> i - 1, error |-> NearestOfType(p, i, ErrorT),
     attachments |-> p.causes[i].attachments]

\* Every error a query can be asked about: the errors given, and their sources.
QueryErrors ==
    {SourceAt(error, k) : <<error, k>> \in
        {pair \in Errors \X (0..2) : pair[2] <= SourceDepth(pair[1])}}

\* C11: has_type<T>() is true, and cause_of_type<T>() returns a match, if and only if
\* some Cause's own error, or an error reachable from it through one or more source
\* links, has concrete type T; otherwise has_type is false and cause_of_type is None.
C11_HasTypeIffReachable ==
    \A ErrorT \in ErrorTypes :
        LET exists == PlacesOfType(problem, ErrorT) # {} IN
        /\ Chain_has_type(problem, ErrorT) <=> exists
        /\ Problem_has_type(problem, ErrorT) <=> exists
        /\ cause_of_type(problem, ErrorT) # None <=> exists

C11_Witness ==
    /\ PlacesOfType(problem, "MessageError") = {<<1, 2>>}
    /\ Chain_has_type(problem, "MessageError")
    /\ cause_of_type(problem, "MessageError") # None
    /\ ~Chain_has_type(problem, "NotFoundError")
    /\ cause_of_type(problem, "NotFoundError") = None
    /\ Len(problem.causes) = 2

\* C12: has(error_value) is true if and only if some error reachable in the chain (a
\* Cause's own error or any error of its source chain) has the concrete type of
\* error_value and is equal to it, also when the equal error is not the first error
\* of that type the search meets.
C12_HasIffEqualReachable ==
    \A error \in QueryErrors :
        LET exists == \E place \in PlacesOfType(problem, error.type) :
                        PartialEq_eq(error, SourceAt(OwnError(problem, place[1]), place[2]))
        IN /\ Problem_has(problem, error) <=> exists
           /\ Chain_has(problem, error) <=> exists

\* C13: causes_of_type<E>() yields one entry for every error of type E found by the
\* has_type search, every match inside one Cause's source chain included: when a
\* Cause's own error and an error of its source chain both have type E, both are
\* yielded.
C13_OneEntryPerMatch ==
    \A ErrorT \in ErrorTypes :
        Len(causes_of_type(problem, ErrorT)) = Cardinality(PlacesOfType(problem, ErrorT))

\* C13 as amended: causes_of_type<E>() yields one entry (chain position, matched
\* error, that Cause's attachments) for every Cause in which the search finds type E,
\* in top-to-root order; the entry's error is the Cause's own error if that has type
\* E, otherwise the nearest match along its source links, and no further match of
\* the same Cause is yielded.
C13_OneEntryPerCause ==
    \A ErrorT \in ErrorTypes :
        LET found == causes_of_type(problem, ErrorT)
            with_type == CausesWithType(problem, ErrorT)
        IN /\ Len(found) = Cardinality(with_type)
           /\ \A i \in with_type :
                found[Cardinality({j \in with_type : j <= i})] = EntryOf(problem, i, ErrorT)

C13_Witness ==
    /\ Len(problem.causes) = 3
    /\ CausesWithType(problem, "WrapError") = {1, 3}
    /\ Cardinality(PlacesOfType(problem, "WrapError")) = 3
    /\ Len(causes_of_type(problem, "WrapError")) = 2
    /\ causes_of_type(problem, "WrapError")[2].depth = 2
    /\ causes_of_type(problem, "WrapError")[2].error = OwnError(problem, 3)

\* C14: the first match, from cause_of_type<E>() and from Problem::get, is the
\* shallowest: it belongs to the top-most Cause that has any match and is that Cause's
\* own error if it has type E, otherwise the nearest match along its source links;
\* its depth is that Cause's index and its attachments are that Cause's, also when
\* the error was found in a source.
C14_FirstMatchShallowest ==
    \A ErrorT \in ErrorTypes :
        LET with_type == CausesWithType(problem, ErrorT)
            expected ==
                IF with_type = {} THEN None
                ELSE Some(EntryOf(problem,
                        CHOOSE i \in with_type : \A j \in with_type : i <= j, ErrorT))
        IN /\ cause_of_type(problem, ErrorT) = expected
           /\ Problem_get(problem, ErrorT) = expected

C14_Witness ==
    /\ Len(problem.causes) = 3
    /\ PlacesOfType(problem, "WrapError") = {<<2, 0>>, <<2, 1>>, <<3, 0>>}
    /\ problem.causes[2].attachments # <<>>
    /\ Problem_get(problem, "WrapError") # None
    /\ Problem_get(problem, "WrapError")[1].depth = 1
    /\ Problem_get(problem, "WrapError")[1].error = OwnError(problem, 2)
    /\ Problem_get(problem, "WrapError")[1].attachments = problem.causes[2].attachments
    /\ Problem_get(problem, "MessageError") # None
    /\ Problem_get(problem, "MessageError")[1].error = SourceAt(OwnError(problem, 2), 2)

---------------------------------------------------------------------------
(* Claims about backtraces, under Spec *)

\* The backtraces among the attachments of a Cause.
Backtraces(cause) ==
    SelectSeq(cause.attachments, LAMBDA attachment : attachment.box.type = "Backtrace")

\* C17: with_backtrace() is idempotent: after two or more calls in a row, or one call
\* on a Problem fresh from the conversion (which captured a backtrace already), the
\* top Cause carries exactly one backtrace attachment.
C17_WithBacktraceIdempotent ==
    ( /\ Len(hist) >= 2
      /\ hist[Len(hist)].op = "with_backtrace"
      /\ hist[Len(hist) - 1].op \in {"from", "with_backtrace"}
      /\ top(problem) # None )
        => Len(Backtraces(top(problem)[1])) = 1

\* C18: a backtrace is captured automatically at construction alone: Problem::from
\* leaves its sole Cause with a backtrace attachment, and via creates the new top
\* Cause with no attachment at all, whatever the chain and the error.
C18_BacktraceOnlyAtConstruction ==
    /\ (Len(hist) = 1 /\ hist[1].op = "from")
        => /\ Len(problem.causes) = 1
           /\ problem.causes[1].attachments = <<CapturedAttachment(Backtrace_new)>>
    /\ (hist # <<>> /\ hist[Len(hist)].op = "via")
        => /\ top(problem) = Some(Cause_new(CapturedError(hist[Len(hist)].arg)))
           /\ top(problem)[1].attachments = <<>>

C18_Witness ==
    /\ Len(hist) = 3
    /\ hist[1].op = "from"
    /\ hist[2].op = "with"
    /\ hist[3].op = "via"
    /\ Len(problem.causes) = 2
    /\ Len(Backtraces(problem.causes[2])) = 1
    /\ Len(problem.causes[2].attachments) = 2
    /\ problem.causes[1].attachments = <<>>

\* C20: once a Cause has been superseded by a newer top, no builder operation
\* (via, with, maybe_with, with_backtrace) changes it: its error and its attachment
\* list are the same in every later state, only its distance from the top grows.
C20_SupersededCauseFrozen ==
    [][LET pushed == Len(problem'.causes) - Len(problem.causes) IN
        /\ pushed >= 0
        /\ \A i \in 2..Len(problem.causes) :
            problem'.causes[i + pushed] = problem.causes[i]]_vars

C20_Witness ==
    /\ Len(hist) = 4
    /\ hist[1].op = "from"
    /\ hist[2].op = "via"
    /\ hist[3].op = "with"
    /\ hist[4].op = "with_backtrace"
    /\ Len(problem.causes) = 2
    /\ problem.causes[2] = Problem_from(hist[1].arg).causes[1]
    /\ Len(problem.causes[1].attachments) = 2

---------------------------------------------------------------------------
(* Claims about splicing, under SpecSplice *)

\* The elements of a sequence at the positions of a set, in order.
AtPositions(items, positions) ==
    [j \in 1..Cardinality(positions) |->
        items[CHOOSE i \in positions : Cardinality({k \in positions : k <= i}) = j]]

\* joined holds every element of ours and of theirs exactly once, each in its order.
Interleaved(ours, theirs, joined) ==
    /\ Len(joined) = Len(ours) + Len(theirs)
    /\ \E positions \in SUBSET (1..Len(joined)) :
        /\ AtPositions(joined, positions) = ours
        /\ AtPositions(joined, (1..Len(joined)) \ positions) = theirs

\* C15: splicing two Problems with behind never drops or duplicates a Cause: the
\* result is as long as both chains together, holds every Cause of either once with
\* its error and attachments unchanged, and keeps the order each chain had.
C15_BehindKeepsEveryCause ==
    [][\A p \in SplicedProblems :
        hist' = Append(hist, Call("behind", p))
            => Interleaved(problem.causes, p.causes, problem'.causes)]_vars

C15_Witness ==
    /\ Len(hist) = 3
    /\ hist[2].op = "via"
    /\ hist[3].op = "behind"
    /\ Len(hist[3].arg.causes) = 2
    /\ Len(problem.causes) = 4
    /\ hist[3].arg.causes[1].attachments # <<>>
    /\ \E i \in 1..4 : problem.causes[i] = hist[3].arg.causes[1]

\* C16: p.behind(q) puts p's causation chain behind that of q: the result's chain is
\* q's causes followed by p's causes, so every Cause of q is nearer the top than every
\* Cause of p and the top of the result is q's top when q is not empty.
C16_BehindPutsOursLast ==
    [][\A p \in SplicedProblems :
        hist' = Append(hist, Call("behind", p))
            => /\ problem'.causes = p.causes \o problem.causes
               /\ top(p) # None => top(problem') = top(p)]_vars

---------------------------------------------------------------------------
(* Claims about one Cause's attachments, under SpecCause *)

\* The values the logged calls handed over, in call order; maybe_attach(None) none.
RECURSIVE AttachedValues(_)
AttachedValues(calls) ==
    IF calls = <<>> THEN <<>>
    ELSE (IF Head(calls).op = "attach" THEN <<Head(calls).arg>> ELSE Head(calls).arg)
            \o AttachedValues(Tail(calls))

AttachmentTypes == {"String", "i32", "Backtrace"}

\* C19: a Cause's attachment list is append-only and not deduplicated: after any
\* sequence of attach / maybe_attach calls it holds exactly the attached values in
\* call order (maybe_attach(None) adds nothing), attachments_of_type<T>() yields all
\* and only the attachments of type T in that order, and attachment_of_type<T>() is
\* the first of them or nothing.
C19_AttachmentsAppendOnly ==
    LET values == AttachedValues(attached) IN
    /\ a_cause.error = CapturedError(LowLevelError)
    /\ a_cause.attachments = [i \in 1..Len(values) |-> CapturedAttachment(values[i])]
    /\ \A AttachmentT \in AttachmentTypes :
        LET typed == SelectSeq(values, LAMBDA value : value.type = AttachmentT) IN
        /\ attachments_of_type(a_cause, AttachmentT) = typed
        /\ attachment_of_type(a_cause, AttachmentT)
            = IF typed = <<>> THEN None ELSE Some(typed[1])

C19_Witness ==
    /\ Len(attached) = 3
    /\ attached[2] = Call("maybe_attach", None)
    /\ Len(a_cause.attachments) = 2
    /\ a_cause.attachments[1] = a_cause.attachments[2]
    /\ Len(attachments_of_type(a_cause, "String")) = 2
    /\ attachment_of_type(a_cause, "String") = Some(StringAttachment("att1"))
    /\ attachment_of_type(a_cause, "i32") = None

---------------------------------------------------------------------------
(* Claims about the chain as a whole, under SpecSplice *)

\* The behind calls made so far that handed over a Problem with Causes of its own.
SplicesWithCauses ==
    {k \in 1..Len(hist) : hist[k].op = "behind" /\ hist[k].arg.causes # <<>>}

\* C21: a Problem constructed from a single error has at least one Cause in every
\* state reached through via, with, maybe_with, with_backtrace and behind: no builder
\* operation removes a Cause or shortens the chain, and the original root error stays
\* the last element of the chain unless a splice has put another chain after it.
C21_BuiltProblemNeverEmpty ==
    /\ []((hist # <<>> /\ hist[1].op = "from")
            => /\ Len(problem.causes) >= 1
               /\ \E i \in 1..Len(problem.causes) :
                    problem.causes[i].error = CapturedError(hist[1].arg)
               /\ SplicesWithCauses = {}
                    => root(problem)[1].error = CapturedError(hist[1].arg))
    /\ [][Len(problem'.causes) >= Len(problem.causes)]_vars

C21_Witness ==
    /\ Len(hist) = 4
    /\ hist[1].op = "from"
    /\ hist[2].op = "via"
    /\ hist[3].op = "behind"
    /\ hist[3].arg = Problem_default
    /\ hist[4].op = "with"
    /\ Len(problem.causes) = 2
    /\ root(problem)[1].error = CapturedError(hist[1].arg)
    /\ top(problem)[1].error # root(problem)[1].error

---------------------------------------------------------------------------
(* Claims about attachment lookup on a whole Problem, under Spec *)

\* The places <<i, j>> of a Problem that hold an attachment of the type: Cause i,
\* attachment j of that Cause.
AttachmentPlaces(p, AttachmentT) ==
    { place \in (1..Len(p.causes)) \X (1..(MaxOps + 2)) :
        /\ place[2] <= Len(p.causes[place[1]].attachments)
        /\ p.causes[place[1]].attachments[place[2]].box.type = AttachmentT }

\* One place comes before another: a Cause nearer the top, or the same Cause and an
\* earlier attachment.
PlaceBefore(a, b) == a[1] < b[1] \/ (a[1] = b[1] /\ a[2] <= b[2])

\* C22: attachment lookup on a whole Problem searches every Cause: Causes top to root
\* and, within a Cause, attachments in insertion order; it returns the first
\* attachment of the type, nothing if no Cause carries one.  So after
\* from(..).via(..).with(x) a lookup for x's type returns x.
C22_LookupSearchesEveryCause ==
    /\ \A AttachmentT \in AttachmentTypes :
        LET places == AttachmentPlaces(problem, AttachmentT)
            found == Problem_attachments_of(problem, AttachmentT)
        IN /\ Len(found) = Cardinality(places)
           /\ \A place \in places :
                found[Cardinality({other \in places : PlaceBefore(other, place)})]
                    = problem.causes[place[1]].attachments[place[2]].box
           /\ Problem_attachment_of(problem, AttachmentT)
                = IF places = {} THEN None ELSE Some(found[1])
    /\ (/\ Len(hist) = 3
        /\ hist[1].op = "from"
        /\ hist[2].op = "via"
        /\ hist[3].op = "with")
        => Problem_attachment_of(problem, hist[3].arg.type) = Some(hist[3].arg)

C22_Witness ==
    /\ Len(hist) = 4
    /\ hist[1].op = "from"
    /\ hist[2].op = "with"
    /\ hist[2].arg = StringAttachment("att2")
    /\ hist[3].op = "via"
    /\ hist[4].op = "with"
    /\ hist[4].arg.type = "i32"
    /\ AttachmentPlaces(problem, "String") = {<<2, 2>>}
    /\ Problem_attachment_of(problem, "String") = Some(StringAttachment("att2"))
    /\ Problem_attachment_of(problem, "i32") = Some(hist[4].arg)
    /\ Len(Problem_attachments(problem)) = 3

---------------------------------------------------------------------------
(* Claims about the Result helpers, under SpecGive *)

\* The latest call was one of the three helpers.
HelperCalled == last.call \in {"give_ok", "give_unwrap_or", "give_unwrap_or_default"}

\* The Problem an Err value stands for: itself if it is a Problem already, else a
\* Problem with that error as its one Cause.
IsProblemOf(p, value) ==
    IF "causes" \in DOMAIN value THEN p = value
    ELSE Len(p.causes) = 1 /\ p.causes[1].error = CapturedError(value)

\* C23: give_ok behaves like Result::ok with the error routed to the receiver: on
\* Ok(v) it returns Ok(Some(v)) and never calls the receiver; on Err it converts the
\* error to a Problem and calls receiver.give exactly once, returning Ok(None) if the
\* receiver swallowed it and Err with that Problem if the receiver rejected it.
\* give_unwrap_or and give_unwrap_or_default do the same with v in place of Some(v)
\* and the default value in place of None.
C23_GiveOkRoutesError ==
    HelperCalled =>
        LET result == last.arg.result
            is_ok == last.call = "give_ok"
        IN /\ result.ok =>
                /\ gave = <<>>
                /\ last.ret = Ok(IF is_ok THEN Some(result.val) ELSE result.val)
           /\ ~result.ok =>
                /\ Len(gave) = 1
                /\ IsProblemOf(gave[1].problem, result.val)
                /\ gave[1].ret.ok =>
                    last.ret = Ok(IF is_ok THEN None ELSE last.arg.default)
                /\ ~gave[1].ret.ok =>
                    last.ret = Err(gave[1].problem)

C23_Witness ==
    /\ last.call = "give_ok"
    /\ last.arg.kind = "Problems"
    /\ last.arg.result = Err(WrapError(LowLevelError))
    /\ last.ret = Ok(None)
    /\ Len(gave) = 1
    /\ gave[1].ret = Ok(Unit)
    /\ Len(problems) = 2
    /\ problems[2] = gave[1].problem

---------------------------------------------------------------------------
(* Claims about a batch loop, under SpecBatch *)

\* The turns of the loop whose item failed.
Failures == {i \in 1..Len(read) : ~read[i].result.ok}

\* The Problems the loop handed over that the policy does not name critical.
RECURSIVE NonCritical(_)
NonCritical(turns) ==
    IF turns = <<>> THEN <<>>
    ELSE (IF ~Head(turns).result.ok
             /\ ~TopTypeRegistered(critical_error_types, Head(turns).result.val)
          THEN <<Head(turns).result.val>> ELSE <<>>) \o NonCritical(Tail(turns))

\* The Problems the accumulator held when the loop began.
Stocked ==
    LET added == SelectSeq(accepted, LAMBDA entry : entry.by = "add")
    IN [i \in 1..Len(added) |-> added[i].problem]

\* The loop ended at turn i, returning Err with the Problem of that turn.
StoppedAt(i) ==
    /\ i = Len(read)
    /\ reading = "returned"
    /\ returned = Some(Err(read[i].result.val))

\* C24: in a batch loop that reports each failing item with give_ok(receiver)?, as
\* read_files does: with a Problems accumulator each non-critical failure is stored, in
\* item order, and the loop goes on; as soon as an item fails with a critical top error
\* the loop returns Err with that Problem, no later item is processed, and what was
\* accumulated before is still stored; with FailFast the loop stops at the first
\* failure.
C24_CriticalStopsTheBatch ==
    /\ receiver_kind = "Problems" =>
        /\ problems = Stocked \o NonCritical(read)
        /\ \A i \in Failures :
            TopTypeRegistered(critical_error_types, read[i].result.val) => StoppedAt(i)
    /\ receiver_kind = "FailFast" =>
        /\ problems = Stocked
        /\ \A i \in Failures : StoppedAt(i)

---------------------------------------------------------------------------
(* Claims about walking the chain from a CauseRef, under SpecChain *)

\* The CauseRef of the Cause at depth d, as Cause::to_ref and the iterator make it.
RefAt(p, d) == Cause_to_ref(p.causes[d + 1], p, d)

\* The elements of a sequence as a set.
Range(items) == {items[i] : i \in 1..Len(items)}

\* The CauseRefs the typed and by-value queries give for a Problem.
FoundRefs(p) ==
    UNION {Range(causes_of_type(p, ErrorT)) \cup Range(cause_of_type(p, ErrorT))
                \cup Range(Problem_get(p, ErrorT)) : ErrorT \in ErrorTypes}
        \cup UNION {Range(causes_for(p, error)) \cup Range(cause_for(p, error))
                        : error \in QueryErrors}

\* C25: for a CauseRef at depth d of a chain of length n, under() and the older next()
\* return the Cause at depth d+1, and None exactly when the CauseRef is the root
\* (is_root, d = n-1); iter_under() yields the Causes at depths d+1 .. n-1 in that
\* order, each with its own depth, and then ends; is_top holds exactly when d = 0.
C25_WalkUnder ==
    LET n == Len(problem.causes) IN
    \A self \in {RefAt(problem, d) : d \in 0..(n - 1)} \cup FoundRefs(problem) :
        LET d == self.depth IN
        /\ under(self) = IF d = n - 1 THEN None ELSE Some(RefAt(problem, d + 1))
        /\ CauseRef_next(self) = under(self)
        /\ is_root(self) = {[panic |-> FALSE, val |-> d = n - 1]}
        /\ under(self) = None <=> d = n - 1
        /\ Iterator_collect(iter_under(self))
            = [k \in 1..(n - 1 - d) |-> RefAt(problem, d + k)]
        /\ CauseRefIterator_next(
                CauseRefIterator_new(problem, n)).item = None
        /\ is_top(self) <=> d = 0

C25_Witness ==
    /\ Len(problem.causes) = 3
    /\ problem.causes[3].attachments # <<>>
    /\ cause_of_type(problem, "LowLevelError") # None
    /\ cause_of_type(problem, "LowLevelError")[1].depth = 0
    /\ Len(Iterator_collect(iter_under(cause_of_type(problem, "LowLevelError")[1]))) = 2
    /\ under(RefAt(problem, 1)) = Some(RefAt(problem, 2))
    /\ under(RefAt(problem, 2)) = None
    /\ is_root(RefAt(problem, 2)) = {[panic |-> FALSE, val |-> TRUE]}

\* C26: has_type<E>() and cause_of_type<E>() always agree: for every chain and type
\* has_type is true exactly when cause_of_type returns a match; likewise has(e) is
\* true exactly when cause_for(e) returns a match.
C26_HasAgreesWithCauseOf ==
    /\ \A ErrorT \in ErrorTypes :
        Chain_has_type(problem, ErrorT) <=> cause_of_type(problem, ErrorT) # None
    /\ \A error \in QueryErrors :
        Chain_has(problem, error) <=> cause_for(problem, error) # None

C26_Witness ==
    /\ Len(problem.causes) = 2
    /\ Chain_has_type(problem, "MessageError")
    /\ ~Chain_has(problem, MessageError(None))
    /\ cause_for(problem, MessageError(None)) = None
    /\ Chain_has(problem, MessageError(Some("disk full")))
    /\ cause_for(problem, MessageError(Some("disk full"))) # None
    /\ cause_for(problem, MessageError(Some("disk full")))[1].depth = 1
    /\ ~Chain_has_type(problem, "WrapError")
    /\ cause_of_type(problem, "WrapError") = None

\* The CauseRefs reached by walking down from the ones the queries give.
WalkedRefs(p) ==
    UNION {Range(Iterator_collect(iter_under(self))) \cup Range(under(self))
                : self \in FoundRefs(p)}

\* C27: every CauseRef the chain queries produce (causes_of_type, cause_of_type,
\* causes_for, cause_for, get, iter_under, under) has a depth strictly less than the
\* length of the owning chain, so len - 1 in is_root never overflows for it and its
\* depth names an existing Cause, the one whose attachments it carries.
C27_DepthInsideChain ==
    \A self \in FoundRefs(problem) \cup WalkedRefs(problem) :
        /\ self.problem = problem
        /\ self.depth >= 0
        /\ self.depth < Len(self.problem.causes)
        /\ \A outcome \in is_root(self) : ~outcome.panic
        /\ VecDeque_get(self.problem.causes, self.depth) # None
        /\ self.attachments = self.problem.causes[self.depth + 1].attachments

C27_Witness ==
    /\ Len(problem.causes) = 3
    /\ \E self \in FoundRefs(problem) : self.depth = 2 /\ self.error.type = "MessageError"
    /\ \E self \in WalkedRefs(problem) : self.depth = 2
    /\ \E self \in FoundRefs(problem) : self.depth = 0
    /\ Cardinality(FoundRefs(problem)) >= 4

---------------------------------------------------------------------------
(* Further claims about the receivers, under SpecReceiver *)

\* C28: a receiver never alters the Problem it is given nor its own policy: the
\* Problem a rejecting give returns and the Problem a swallowing give (or add) stores
\* have exactly the causes and attachments of the given one, and give, add and check
\* leave critical_error_types unchanged.
C28_ReceiverKeepsProblemAndPolicy ==
    [][/\ last'.call \in {"give", "add", "check", "FailFast::give"}
            => critical_error_types' = critical_error_types
       /\ (last'.call \in {"give", "FailFast::give"} /\ ~last'.ret.ok)
            => /\ last'.ret.val = last'.arg
               /\ problems' = problems
       /\ (last'.call = "add" \/ (last'.call = "give" /\ last'.ret.ok))
            => problems' = Append(problems, last'.arg)
       /\ (last'.call = "check" /\ ~last'.ret.ok)
            => last'.ret.val = Self]_vars

C28_Witness ==
    /\ last.call = "give"
    /\ last.ret = Ok(Unit)
    /\ Len(last.arg.causes) = 2
    /\ last.arg.causes[1].attachments # <<>>
    /\ Len(problems) = 2
    /\ problems[2] = last.arg
    /\ critical_error_types = {"LowLevelError", "WrapError"}

\* C29: the accumulator's list is append-only and ordered: after any sequence of
\* give, add and handle_type_as_critical calls the stored Problems are exactly the
\* swallowed and added ones in the order they came, the count never decreases, and
\* registering a type as critical, once or again, removes and reorders nothing.
C29_ListAppendOnly ==
    /\ [](problems = AcceptedProblems)
    /\ [][/\ Len(problems') >= Len(problems)
          /\ SubSeq(problems', 1, Len(problems)) = problems
          /\ last'.call = "handle_type_as_critical" => problems' = problems]_vars

C29_Witness ==
    /\ Len(problems) = 2
    /\ problems[1] # problems[2]
    /\ accepted[1].by = "give"
    /\ accepted[2].by = "add"
    /\ last.call = "handle_type_as_critical"
    /\ Cardinality(critical_error_types) = 2

\* C30: a Problem with an empty chain is never critical: whatever types are
\* registered, Problems.give of it returns Ok and stores it, so that check() fails
\* afterwards.
C30_EmptyProblemNotCritical ==
    [][(last'.call = "give" /\ last'.arg = Problem_default)
        => /\ last'.ret = Ok(Unit)
           /\ problems' = Append(problems, Problem_default)
           /\ ~check([problems |-> problems',
                      critical_error_types |-> critical_error_types']).ok]_vars

C30_Witness ==
    /\ last.call = "give"
    /\ last.arg = Problem_default
    /\ last.ret = Ok(Unit)
    /\ critical_error_types = GivenTypes
    /\ problems = <<Problem_default>>
    /\ ~check(Self).ok

====
